---- MODULE Spec2Model ----
(***************************************************************************)
(* Bounded-concurrency batch mapper (concurrentMap) and the product        *)
(* scrapers built on it (scrape, scrapeChallengeV2, scrapeChallengeV3).    *)
(*                                                                         *)
(* Every promise is a record; a step of the model is one callback of the   *)
(* event loop: an asynchronous call settling, a timer elapsing, or an      *)
(* async function resuming after the promise it awaits has settled.        *)
(***************************************************************************)
EXTENDS Integers, Sequences, FiniteSets, TLC

\* ------------------------------------------------------------- bounds
MaxLen == 3            \* longest items list given to a direct concurrentMap call
MaxItem == 2           \* items of a direct call are drawn from 1..MaxItem
MaxConcurrency == 3    \* concurrency of a direct call is drawn from 1..MaxConcurrency
MaxCategories == 4     \* most categories of the wide catalog
MaxProducts == 6       \* most product summaries the deep catalog lists in one run
FewCategories == 2     \* most categories of the other catalogs
FewProducts == 2       \* most product summaries the other catalogs list in one run
MaxProductId == 2      \* the small catalog draws product ids from 1..MaxProductId
MaxPages == 2          \* most pages a category has
MaxPageSize == 1       \* most product summaries on one page
TickMs == 50           \* granularity of the clock, in ms
MaxNonPositive == 2    \* an invalid concurrency is one of 0, -1 .. -MaxNonPositive
MaxCursor == 2         \* the small catalog draws the cursors of later pages from 1..MaxCursor

\* ------------------------------------------------- program constants
listProductsMaxConcurrentCallsV2 == 2
getProductMaxConcurrentCalls == 5
listProductsMaxConcurrentCallsV3 == 3
HalfDelay == 100 \div 2        \* a delay of half the required spacing

getProductDetailsDelay == 100
InitialCursor == 0

\* ------------------------------------------------------------ helpers
Null == -1             \* the null cursor

Min(a, b) == IF a < b THEN a ELSE b

Max(a, b) == IF a > b THEN a ELSE b

Range(s) == {s[i] : i \in DOMAIN s}

SeqsUpTo(S, n) == UNION {[1..k -> S] : k \in 0..n}

RECURSIVE FlatDedup(_)
\* flat() followed by a removal of the products whose id was seen before
FlatDedup(ss) ==
  IF Len(ss) = 0 THEN <<>>
  ELSE LET rest == FlatDedup(SubSeq(ss, 1, Len(ss) - 1))
           Add(acc, x) == IF \E i \in DOMAIN acc : acc[i].id = x.id THEN acc
                          ELSE Append(acc, x)
           RECURSIVE AddAll(_, _)
           AddAll(acc, xs) == IF Len(xs) = 0 THEN acc
                              ELSE AddAll(Add(acc, Head(xs)), Tail(xs))
       IN AddAll(rest, ss[Len(ss)])

RECURSIVE Flat(_)
\* Array.prototype.flat(): one level of nesting removed, order kept
Flat(ss) == IF Len(ss) = 0 THEN <<>> ELSE Head(ss) \o Flat(Tail(ss))

\* split(size, items) of ../utils: consecutive groups of at most `size` items
split(size, xs) ==
  [k \in 1..((Len(xs) + size - 1) \div size) |->
     SubSeq(xs, (k - 1) * size + 1, Min(k * size, Len(xs)))]

\* split(size, items) for a size that is not positive: an invalid-argument
\* error is thrown, nothing is partitioned
splitThrows(size) == size <= 0

RECURSIVE Offset(_, _)
\* number of items in the chunks before chunk k
Offset(cs, k) == IF k <= 1 THEN 0 ELSE Offset(cs, k - 1) + Len(cs[k - 1])

\* the promises of chunk k (chunk.map(mapper)), named by the index of their item
Promises(cs, k) == [e \in 1..Len(cs[k]) |-> Offset(cs, k) + e]

\* responses.concat(result): the chunk's responses put in front
ConcatSwapped(result_, responses) == responses \o result_

\* result.concat(responses)
Concat(result_, responses) == result_ \o responses

\* ----------------------------------------------- the remote api (stub)
Category(c) == [id |-> c]

Product(p) == [id |-> p]

ProductIds == 1..MaxProductId

\* the pages api.listProducts may answer with, given the ids it knows
Pages(ids, size) == SeqsUpTo({Product(p) : p \in ids}, size)

\* What lies behind the api in a run: the product ids it knows, how many
\* categories it may list, how many product summaries a page holds, how
\* many it lists at most in the run and the cursors it hands out for the
\* pages after the first. The wide catalog has many categories and
\* the deep one many products (they exercise the concurrency caps, one
\* product id and one cursor are enough for that); the small one has two
\* categories that may list the same product id; the paged one has a single category
\* and hands out any cursor.
Catalogs ==
  {[ids |-> {1}, categories |-> MaxCategories,
    pageSize |-> MaxPageSize, listings |-> FewProducts, cursors |-> {1}],
   [ids |-> {1}, categories |-> FewCategories,
    pageSize |-> MaxProducts, listings |-> MaxProducts, cursors |-> {1}],
   [ids |-> ProductIds, categories |-> 2,
    pageSize |-> MaxPageSize, listings |-> FewProducts, cursors |-> {1}],
   [ids |-> {1}, categories |-> 1,
    pageSize |-> MaxPageSize, listings |-> FewProducts, cursors |-> 1..MaxCursor]}

NoCatalog ==
  [ids |-> {}, categories |-> 0, pageSize |-> 0, listings |-> 0, cursors |-> {}]

\* api.getProduct(id)
getProduct(id) == [id |-> id, name |-> id, price |-> 1, description |-> ""]

\* errors are numbers that name the call that failed
ListCategoriesError == 900

ListProductsError(i) == 100 + i

GetProductError(i) == 200 + i

MapperError(i) == 300 + i

InvalidArgumentError == 400

\* ------------------------------------------------------------ mappers
DirectMappers == {"identityAsync", "succAsync"}

DetailMappers == {"getProduct", "getProductDetails", "delayedGetProductDetails"}

Scrapers == {"scrape", "scrapeChallengeV2", "scrapeChallengeV3"}

\* what a direct mapper resolves to
MapperValue(m, x) == IF m = "identityAsync" THEN x ELSE x + 10

\* A mapper invocation: its promise (st, val, err), the locals of the
\* function behind it (cursor, products of getProductsByCategory; the time
\* left on the timer of delayedReturn) and its history: how often the mapper
\* was invoked on the item, how many api.listProducts calls were made and
\* the cursor passed to the latest, how many pages api.listProducts answered
\* with, the nextCursor of the latest and the results of all of them.
NotStarted ==
  [st |-> "notStarted", val |-> <<>>, err |-> 0,
   delay |-> 0, cursor |-> InitialCursor, products |-> <<>>,
   invoked |-> 0, calls |-> 0, called |-> Null,
   pages |-> 0, answered |-> Null, got |-> <<>>]

\* the invocation right after mapper m was called: getProductsByCategory
\* has made its first api.listProducts call, with the cursor it starts at
Invoke(m) ==
  IF m = "delayedGetProductDetails"
  THEN [NotStarted EXCEPT !.st = "delaying", !.delay = getProductDetailsDelay,
                          !.invoked = 1]
  ELSE IF m = "getProductsByCategory"
  THEN [NotStarted EXCEPT !.st = "pending", !.invoked = 1,
                          !.calls = 1, !.called = NotStarted.cursor]
  ELSE [NotStarted EXCEPT !.st = "pending", !.invoked = 1]

\* mapper m called on an item whose invocation so far is r
InvokeOn(r, m) == [Invoke(m) EXCEPT !.invoked = r.invoked + 1]

Settled(r) == r.st \in {"fulfilled", "rejected"}

InFlight(r) == r.st = "pending"

Started(r) == r.st # "notStarted"

VARIABLES
  entry,            \* the function the run calls
  catalog,          \* what lies behind the api
  pc,               \* where the called function is
  outcome,          \* the promise the scraper returned
  categories,       \* what api.listCategories answered
  products,         \* the product summaries collected
  productsDetails,  \* the details collected by scrapeChallengeV3
  iter,             \* index of the element a for-of loop is at
  concurrency, mapper, items,       \* arguments of the concurrentMap call
  chunkNo,          \* the chunk concurrentMap is at
  result,           \* result of concurrentMap
  cmState, cmErr,   \* the promise concurrentMap returned
  inv,              \* the mapper invocations, by item index
  awaiting,         \* the promises joined by the pending await
  allErr,           \* the first rejection among them (0: none)
  sinceLast,        \* ms since the last api.getProduct call started (-1: none yet)
  minGap,           \* history: least ms between two api.getProduct starts in a row (-1: none yet)
  listed,           \* history: how often each product id was listed by a page
  fetched,          \* history: how often api.getProduct was called for each id
  firstErr          \* history: the error of the first call that failed (0: none)

cmVars == <<concurrency, mapper, items, chunkNo, result, cmState, cmErr>>

joinVars == <<inv, awaiting, allErr>>

mainVars == <<entry, catalog, pc, outcome, categories, products, productsDetails, iter>>

clockVars == <<sinceLast, minGap>>

histVars == <<listed, fetched, firstErr>>

vars == <<mainVars, cmVars, joinVars, clockVars, histVars>>

PendingPromise == [st |-> "pending", val |-> <<>>, err |-> 0]

Fulfilled(v) == [st |-> "fulfilled", val |-> v, err |-> 0]

Rejected(e) == [st |-> "rejected", val |-> <<>>, err |-> e]

EmptyBag == [p \in ProductIds |-> 0]

\* the bag b with the ids of the products of xs added
AddIds(b, xs) ==
  [p \in ProductIds |-> b[p] + Cardinality({i \in DOMAIN xs : xs[i].id = p})]

BagSize(b) ==
  LET RECURSIVE Sum(_)
      Sum(n) == IF n = 0 THEN 0 ELSE b[n] + Sum(n - 1)
  IN Sum(MaxProductId)

\* ------------------------------------------------------- Promise.all
\* history of failures: the first failed call of the run stays recorded
FirstError(e) == IF firstErr = 0 THEN e ELSE firstErr

\* Promise.any in place of Promise.all: one fulfilled promise is enough
AnyFulfilled(ps) == ps = <<>> \/ \E e \in DOMAIN ps : inv[ps[e]].st = "fulfilled"

AllFulfilled(ps) == \A e \in DOMAIN ps : inv[ps[e]].st = "fulfilled"

AllValues(ps) == [e \in DOMAIN ps |-> inv[ps[e]].val]

\* a join that only counts fulfilments: a rejection never reaches it
SettleUnwatched(i, r) ==
  /\ inv' = [inv EXCEPT ![i] = r]
  /\ UNCHANGED <<awaiting, allErr>>

\* invocation i takes the state r; Promise.all rejects with the first
\* rejection among its promises
Settle(i, r) ==
  /\ inv' = [inv EXCEPT ![i] = r]
  /\ allErr' = IF r.st = "rejected" /\ allErr = 0 /\ i \in Range(awaiting)
               THEN r.err ELSE allErr
  /\ UNCHANGED awaiting

\* -------------------------------------------------------- concurrentMap
\* api.getProduct calls made by calling mapper m on the items xs
Fetches(m, xs) ==
  IF m \in {"getProduct", "getProductDetails"} THEN AddIds(fetched, xs) ELSE fetched

\* items.map(mapper) in place of chunk.map(mapper): every item left is mapped
StartChunkAllLeft(base, cs, k, m) ==
  /\ chunkNo' = k
  /\ awaiting' = Promises(cs, k)
  /\ allErr' = 0
  /\ inv' = [i \in DOMAIN base |->
               IF i > Offset(cs, k) THEN InvokeOn(base[i], m) ELSE base[i]]
  /\ fetched' = Fetches(m, cs[k])

\* chunk.map(mapper); await Promise.all(promises)
StartChunk(base, cs, k, m) ==
  /\ chunkNo' = k
  /\ awaiting' = Promises(cs, k)
  /\ allErr' = 0
  /\ inv' = [i \in DOMAIN base |->
               IF i \in Range(Promises(cs, k)) THEN InvokeOn(base[i], m) ELSE base[i]]
  /\ fetched' = Fetches(m, cs[k])

\* Math.max(1, concurrency) handed to split: an invalid concurrency is
\* taken for 1
concurrentMapClamped(c, m, xs) ==
  /\ concurrency' = c
  /\ mapper' = m
  /\ items' = xs
  /\ result' = <<>>
  /\ cmErr' = 0
  /\ IF Len(split(Max(1, c), xs)) = 0
     THEN /\ cmState' = "fulfilled"
          /\ chunkNo' = 0
          /\ awaiting' = <<>>
          /\ allErr' = 0
          /\ inv' = <<>>
          /\ UNCHANGED fetched
     ELSE /\ cmState' = "await"
          /\ StartChunk([i \in 1..Len(xs) |-> NotStarted], split(Max(1, c), xs), 1, m)

\* the call concurrentMap(c, m, xs), up to its first await; an error thrown
\* by split rejects the promise of the async function
concurrentMap(c, m, xs) ==
  /\ concurrency' = c
  /\ mapper' = m
  /\ items' = xs
  /\ result' = <<>>
  /\ IF splitThrows(c)
     THEN /\ cmState' = "rejected"
          /\ cmErr' = InvalidArgumentError
          /\ chunkNo' = 0
          /\ awaiting' = <<>>
          /\ allErr' = 0
          /\ inv' = [i \in 1..Len(xs) |-> NotStarted]
          /\ UNCHANGED fetched
     ELSE /\ cmErr' = 0
          /\ IF Len(split(c, xs)) = 0
             THEN /\ cmState' = "fulfilled"
                  /\ chunkNo' = 0
                  /\ awaiting' = <<>>
                  /\ allErr' = 0
                  /\ inv' = <<>>
                  /\ UNCHANGED fetched
             ELSE /\ cmState' = "await"
                  /\ StartChunk([i \in 1..Len(xs) |-> NotStarted], split(c, xs), 1, m)

\* the chunks mapped by a loop of its own that a rejection does not end:
\* once the chunk has settled the next one is mapped, failed or not
concurrentMapNextChunkDetached ==
  /\ cmState \in {"await", "rejected"}
  /\ \A e \in DOMAIN awaiting : Settled(inv[awaiting[e]])
  /\ chunkNo < Len(split(concurrency, items))
  /\ result' = Concat(result, AllValues(awaiting))
  /\ StartChunk(inv, split(concurrency, items), chunkNo + 1, mapper)
  /\ UNCHANGED <<concurrency, mapper, items, cmState, cmErr>>
  /\ UNCHANGED <<mainVars, clockVars, listed, firstErr>>

\* the Promise.all raced against a timer: the loop goes on with the next
\* chunk although invocations of this one have not settled
concurrentMapNextChunkAfterTimeout ==
  /\ cmState = "await"
  /\ allErr = 0
  /\ chunkNo < Len(split(concurrency, items))
  /\ result' = Concat(result, AllValues(awaiting))
  /\ StartChunk(inv, split(concurrency, items), chunkNo + 1, mapper)
  /\ UNCHANGED <<concurrency, mapper, items, cmState, cmErr>>
  /\ UNCHANGED <<mainVars, clockVars, listed, firstErr>>

\* the chunk's Promise.all fulfilled and another chunk is left
concurrentMapNextChunk ==
  /\ cmState = "await"
  /\ allErr = 0
  /\ AllFulfilled(awaiting)
  /\ chunkNo < Len(split(concurrency, items))
  /\ result' = Concat(result, AllValues(awaiting))
  /\ StartChunk(inv, split(concurrency, items), chunkNo + 1, mapper)
  /\ UNCHANGED <<concurrency, mapper, items, cmState, cmErr>>
  /\ UNCHANGED <<mainVars, clockVars, listed, firstErr>>

\* the last chunk's Promise.all fulfilled: return result
concurrentMapReturn ==
  /\ cmState = "await"
  /\ allErr = 0
  /\ AllFulfilled(awaiting)
  /\ chunkNo >= Len(split(concurrency, items))
  /\ result' = Concat(result, AllValues(awaiting))
  /\ cmState' = "fulfilled"
  /\ UNCHANGED <<concurrency, mapper, items, chunkNo, cmErr>>
  /\ UNCHANGED <<mainVars, joinVars, clockVars, histVars>>

\* the rejection caught and the loop carried on with the next chunk
concurrentMapSkipFailed ==
  /\ cmState = "await"
  /\ allErr # 0
  /\ IF chunkNo < Len(split(concurrency, items))
     THEN /\ StartChunk(inv, split(concurrency, items), chunkNo + 1, mapper)
          /\ UNCHANGED cmState
     ELSE /\ cmState' = "fulfilled"
          /\ UNCHANGED <<chunkNo, joinVars, fetched>>
  /\ UNCHANGED <<concurrency, mapper, items, result, cmErr>>
  /\ UNCHANGED <<mainVars, clockVars, listed, firstErr>>

\* Promise.allSettled-like join: the await throws once the whole chunk settled
concurrentMapThrowWhenSettled ==
  /\ cmState = "await"
  /\ allErr # 0
  /\ \A e \in DOMAIN awaiting : Settled(inv[awaiting[e]])
  /\ cmState' = "rejected"
  /\ cmErr' = allErr
  /\ UNCHANGED <<concurrency, mapper, items, chunkNo, result>>
  /\ UNCHANGED <<mainVars, joinVars, clockVars, histVars>>

\* the chunk's Promise.all rejected: the await throws
concurrentMapThrow ==
  /\ cmState = "await"
  /\ allErr # 0
  /\ cmState' = "rejected"
  /\ cmErr' = allErr
  /\ UNCHANGED <<concurrency, mapper, items, chunkNo, result>>
  /\ UNCHANGED <<mainVars, joinVars, clockVars, histVars>>

\* ------------------------------------------- a direct concurrentMap call
CallConcurrentMap ==
  /\ entry = "concurrentMap"
  /\ pc = "start"
  /\ pc' = "concurrentMap"
  /\ concurrentMap(concurrency, mapper, items)
  /\ UNCHANGED <<entry, catalog, outcome, categories, products, productsDetails, iter>>
  /\ UNCHANGED <<clockVars, listed, firstErr>>

\* the promise of mapper(items[i]) fulfils
MapperResolve(i) ==
  /\ mapper \in DirectMappers
  /\ InFlight(inv[i])
  /\ Settle(i, [inv[i] EXCEPT !.st = "fulfilled", !.val = MapperValue(mapper, items[i])])
  /\ UNCHANGED <<mainVars, cmVars, clockVars, histVars>>

\* the promise of mapper(items[i]) rejects
MapperReject(i) ==
  /\ mapper \in DirectMappers
  /\ InFlight(inv[i])
  /\ Settle(i, [inv[i] EXCEPT !.st = "rejected", !.err = MapperError(i)])
  /\ firstErr' = FirstError(MapperError(i))
  /\ UNCHANGED <<mainVars, cmVars, clockVars, listed, fetched>>

InitCommon ==
  /\ pc = "start"
  /\ outcome = PendingPromise
  /\ categories = <<>>
  /\ products = <<>>
  /\ productsDetails = <<>>
  /\ iter = 0
  /\ chunkNo = 0
  /\ result = <<>>
  /\ cmState = "none"
  /\ cmErr = 0
  /\ inv = <<>>
  /\ awaiting = <<>>
  /\ allErr = 0
  /\ sinceLast = -1
  /\ minGap = -1
  /\ listed = EmptyBag
  /\ fetched = EmptyBag
  /\ firstErr = 0

\* a direct call: any items, any concurrency >= 1 (among them 1, len(items)
\* and len(items) + 10), either mapper
InitCM ==
  /\ entry = "concurrentMap"
  /\ catalog = NoCatalog
  /\ items \in SeqsUpTo(1..MaxItem, MaxLen)
  /\ concurrency \in (1..MaxConcurrency) \cup ({Len(items), Len(items) + 10} \ {0})
  /\ mapper \in DirectMappers
  /\ InitCommon

NextCM ==
  \/ CallConcurrentMap
  \/ \E i \in DOMAIN inv : MapperResolve(i)
  \/ \E i \in DOMAIN inv : MapperReject(i)
  \/ concurrentMapNextChunk
  \/ concurrentMapReturn
  \/ concurrentMapThrow

SpecCM == InitCM /\ [][NextCM]_vars

\* ----------------------------------------------- concurrentMapChallenge
\* Promise.all(promises) in place of Promise.all(prevResponse.concat(promises)):
\* the responses of the earlier chunks are dropped
PrevConcatDropped(prevResponse, responses) == responses

\* the value of Promise.all(prevResponse.concat(promises)): the responses of
\* the earlier chunks, which are plain values, then those of the promises
PrevConcat(prevResponse, responses) == prevResponse \o responses

\* the call concurrentMapChallenge(c, m, xs): split and reduce build the
\* chain of then-callbacks over Promise.resolve([]); no callback has run
\* yet. The function is not async: an error thrown by split is thrown by
\* the call itself, no promise is returned.
concurrentMapChallenge(c, m, xs) ==
  /\ concurrency' = c
  /\ mapper' = m
  /\ items' = xs
  /\ result' = <<>>
  /\ chunkNo' = 0
  /\ awaiting' = <<>>
  /\ allErr' = 0
  /\ inv' = [i \in 1..Len(xs) |-> NotStarted]
  /\ IF splitThrows(c)
     THEN cmState' = "thrown" /\ cmErr' = InvalidArgumentError
     ELSE /\ cmErr' = 0
          /\ cmState' = IF Len(split(c, xs)) = 0 THEN "fulfilled" ELSE "await"

CallConcurrentMapChallenge ==
  /\ entry = "concurrentMapChallenge"
  /\ pc = "start"
  /\ pc' = "concurrentMap"
  /\ concurrentMapChallenge(concurrency, mapper, items)
  /\ UNCHANGED <<entry, catalog, outcome, categories, products, productsDetails, iter>>
  /\ UNCHANGED <<clockVars, histVars>>

\* prevPromise fulfilled with prevResponse: the then-callback of the next
\* chunk runs chunk.map(mapper) and returns the Promise.all
concurrentMapChallengeThen ==
  /\ cmState = "await"
  /\ allErr = 0
  /\ AllFulfilled(awaiting)
  /\ chunkNo < Len(split(concurrency, items))
  /\ result' = PrevConcat(result, AllValues(awaiting))
  /\ StartChunk(inv, split(concurrency, items), chunkNo + 1, mapper)
  /\ UNCHANGED <<concurrency, mapper, items, cmState, cmErr>>
  /\ UNCHANGED <<mainVars, clockVars, listed, firstErr>>

\* the Promise.all of the last chunk fulfilled: so does the promise returned
concurrentMapChallengeReturn ==
  /\ cmState = "await"
  /\ allErr = 0
  /\ AllFulfilled(awaiting)
  /\ chunkNo >= Len(split(concurrency, items))
  /\ result' = PrevConcat(result, AllValues(awaiting))
  /\ cmState' = "fulfilled"
  /\ UNCHANGED <<concurrency, mapper, items, chunkNo, cmErr>>
  /\ UNCHANGED <<mainVars, joinVars, clockVars, histVars>>

\* a Promise.all rejected: the then-callbacks of the later chunks are passed
\* over and the promise returned rejects
concurrentMapChallengeReject ==
  /\ cmState = "await"
  /\ allErr # 0
  /\ cmState' = "rejected"
  /\ cmErr' = allErr
  /\ UNCHANGED <<concurrency, mapper, items, chunkNo, result>>
  /\ UNCHANGED <<mainVars, joinVars, clockVars, histVars>>

\* a direct call of concurrentMapChallenge, with the inputs of InitCM
InitChallenge ==
  /\ entry = "concurrentMapChallenge"
  /\ catalog = NoCatalog
  /\ items \in SeqsUpTo(1..MaxItem, MaxLen)
  /\ concurrency \in (1..MaxConcurrency) \cup ({Len(items), Len(items) + 10} \ {0})
  /\ mapper \in DirectMappers
  /\ InitCommon

NextChallenge ==
  \/ CallConcurrentMapChallenge
  \/ \E i \in DOMAIN inv : MapperResolve(i)
  \/ \E i \in DOMAIN inv : MapperReject(i)
  \/ concurrentMapChallengeThen
  \/ concurrentMapChallengeReturn
  \/ concurrentMapChallengeReject

SpecChallenge == InitChallenge /\ [][NextChallenge]_vars

\* ------------------------------------- a call with an invalid concurrency
\* either function called with a concurrency of 0 or less
InitInvalid ==
  /\ entry \in {"concurrentMap", "concurrentMapChallenge"}
  /\ catalog = NoCatalog
  /\ items \in SeqsUpTo(1..MaxItem, MaxLen)
  /\ concurrency \in {0 - k : k \in 0..MaxNonPositive}
  /\ mapper \in DirectMappers
  /\ InitCommon

NextInvalid ==
  \/ CallConcurrentMap
  \/ CallConcurrentMapChallenge

SpecInvalid == InitInvalid /\ [][NextInvalid]_vars

\* ------------------------------------------------ the remote api settles
\* the loop of getProductsByCategory goes on: api.listProducts is called
\* with the cursor the loop holds
CallListProducts(r) == [r EXCEPT !.calls = r.calls + 1, !.called = r.cursor]

\* products = result in place of products.push(...result)
PageReceivedOverwrite(r, page, nextCursor) ==
  IF nextCursor # Null
  THEN CallListProducts([r EXCEPT !.cursor = nextCursor, !.products = page])
  ELSE [r EXCEPT !.cursor = nextCursor, !.products = page,
                 !.st = "fulfilled", !.val = page]

\* cursor = cursor + 1 in place of cursor = nextCursor: the cursor of the
\* page is not used, the loop counts the pages itself
PageReceivedCounted(r, page, nextCursor) ==
  IF nextCursor # Null
  THEN CallListProducts([r EXCEPT !.cursor = r.cursor + 1,
                                  !.products = r.products \o page])
  ELSE [r EXCEPT !.cursor = nextCursor, !.products = r.products \o page,
                 !.st = "fulfilled", !.val = r.products \o page]

\* getProductsByCategory after a page arrived: cursor = nextCursor,
\* products.push(...result), and the loop goes on unless the cursor is null
PageReceived(r, page, nextCursor) ==
  IF nextCursor # Null
  THEN CallListProducts([r EXCEPT !.cursor = nextCursor,
                                  !.products = r.products \o page])
  ELSE [r EXCEPT !.cursor = nextCursor, !.products = r.products \o page,
                 !.st = "fulfilled", !.val = r.products \o page]

\* the api answered the call of invocation r with { nextCursor, result }
Answered(r, page, nextCursor) ==
  [r EXCEPT !.pages = r.pages + 1, !.answered = nextCursor, !.got = r.got \o page]

\* api.listProducts(category.id, cursor) of invocation i answers with a page
\* and either the cursor of a further page or null
ListProductsPage(i) ==
  /\ mapper = "getProductsByCategory"
  /\ InFlight(inv[i])
  /\ \E page \in Pages(catalog.ids, catalog.pageSize),
        nextCursor \in catalog.cursors \cup {Null} :
       /\ BagSize(listed) + Len(page) <= catalog.listings
       /\ nextCursor = Null \/ inv[i].calls < MaxPages
       /\ Settle(i, PageReceived(Answered(inv[i], page, nextCursor), page, nextCursor))
       /\ listed' = AddIds(listed, page)
  /\ UNCHANGED <<mainVars, cmVars, clockVars, fetched, firstErr>>

\* try/catch around the call: the failure is swallowed and the loop returns
\* the products it has so far
ListProductsRejectSwallowed(i) ==
  /\ mapper = "getProductsByCategory"
  /\ InFlight(inv[i])
  /\ Settle(i, [inv[i] EXCEPT !.st = "fulfilled", !.val = inv[i].products])
  /\ firstErr' = FirstError(ListProductsError(i))
  /\ UNCHANGED <<mainVars, cmVars, clockVars, listed, fetched>>

\* api.listProducts of invocation i fails: getProductsByCategory throws
ListProductsReject(i) ==
  /\ mapper = "getProductsByCategory"
  /\ InFlight(inv[i])
  /\ Settle(i, [inv[i] EXCEPT !.st = "rejected", !.err = ListProductsError(i)])
  /\ firstErr' = FirstError(ListProductsError(i))
  /\ UNCHANGED <<mainVars, cmVars, clockVars, listed, fetched>>

\* api.getProduct(product.id) of invocation i answers
GetProductResolve(i) ==
  /\ mapper \in DetailMappers
  /\ InFlight(inv[i])
  /\ Settle(i, [inv[i] EXCEPT !.st = "fulfilled", !.val = getProduct(items[i].id)])
  /\ UNCHANGED <<mainVars, cmVars, clockVars, histVars>>

\* api.getProduct(product.id) of invocation i fails
GetProductReject(i) ==
  /\ mapper \in DetailMappers
  /\ InFlight(inv[i])
  /\ Settle(i, [inv[i] EXCEPT !.st = "rejected", !.err = GetProductError(i)])
  /\ firstErr' = FirstError(GetProductError(i))
  /\ UNCHANGED <<mainVars, cmVars, clockVars, listed, fetched>>

\* -------------------------------------------------------- delayedReturn
\* the delay of invocation i is over: fn is called, here api.getProduct
DelayElapsed(i) ==
  /\ inv[i].st = "delaying"
  /\ inv[i].delay = 0
  /\ inv' = [inv EXCEPT ![i].st = "pending"]
  /\ fetched' = AddIds(fetched, <<items[i]>>)
  /\ minGap' = IF sinceLast < 0 THEN minGap
               ELSE IF minGap < 0 THEN sinceLast
               ELSE Min(minGap, sinceLast)
  /\ sinceLast' = 0
  /\ UNCHANGED <<mainVars, cmVars, awaiting, allErr, listed, firstErr>>

\* the clock stops counting the time since the last call at GapCap
GapCap == 2 * getProductDetailsDelay

\* TickMs pass; the clock is only looked at by the delays of
\* scrapeChallengeV3, so it only runs while they do
Tick ==
  /\ entry = "scrapeChallengeV3"
  /\ pc = "details"
  /\ \/ \E i \in DOMAIN inv : inv[i].st = "delaying" /\ inv[i].delay > 0
     \/ sinceLast >= 0 /\ sinceLast < GapCap
  /\ inv' = [i \in DOMAIN inv |->
               IF inv[i].st = "delaying"
               THEN [inv[i] EXCEPT !.delay = Max(0, inv[i].delay - TickMs)]
               ELSE inv[i]]
  /\ sinceLast' = IF sinceLast < 0 THEN sinceLast
                  ELSE Min(GapCap, sinceLast + TickMs)
  /\ UNCHANGED <<mainVars, cmVars, awaiting, allErr, minGap, histVars>>

\* ------------------------------------------------------------- scrapers
\* await mapper(item i): one promise is awaited
AwaitOne(base, i, m) ==
  /\ inv' = [base EXCEPT ![i] = InvokeOn(base[i], m)]
  /\ awaiting' = <<i>>
  /\ allErr' = 0

\* the scraper is called: api.listCategories() is in flight
CallScraper ==
  /\ entry \in Scrapers
  /\ pc = "start"
  /\ pc' = "listCategories"
  /\ UNCHANGED <<entry, catalog, outcome, categories, products, productsDetails, iter>>
  /\ UNCHANGED <<cmVars, joinVars, clockVars, histVars>>

\* api.listCategories() fails: the scraper throws
ListCategoriesReject ==
  /\ pc = "listCategories"
  /\ outcome' = Rejected(ListCategoriesError)
  /\ pc' = "done"
  /\ firstErr' = FirstError(ListCategoriesError)
  /\ UNCHANGED <<entry, catalog, categories, products, productsDetails, iter>>
  /\ UNCHANGED <<cmVars, joinVars, clockVars, listed, fetched>>

\* products.map(product => api.getProduct(product.id)); Promise.all(...)
MapDetails(ps) ==
  /\ pc' = "details"
  /\ mapper' = "getProduct"
  /\ items' = ps
  /\ inv' = [i \in 1..Len(ps) |-> Invoke("getProduct")]
  /\ awaiting' = [i \in 1..Len(ps) |-> i]
  /\ allErr' = 0
  /\ fetched' = AddIds(fetched, ps)

\* categories.map(getProductsByCategory) in place of the for-of loop of
\* getAllProductsByCategory: every category is paginated at once
scrapeListCategoriesAtOnce ==
  /\ entry = "scrape"
  /\ pc = "listCategories"
  /\ \E n \in 0..catalog.categories :
       /\ categories' = [c \in 1..n |-> Category(c)]
       /\ products' = <<>>
       /\ IF n = 0
          THEN /\ MapDetails(<<>>)
               /\ UNCHANGED iter
          ELSE /\ pc' = "listing"
               /\ iter' = 1
               /\ mapper' = "getProductsByCategory"
               /\ items' = categories'
               /\ inv' = [i \in 1..n |-> Invoke("getProductsByCategory")]
               /\ awaiting' = <<1>>
               /\ allErr' = 0
               /\ UNCHANGED fetched
  /\ UNCHANGED <<entry, catalog, outcome, productsDetails>>
  /\ UNCHANGED <<concurrency, chunkNo, result, cmState, cmErr, clockVars, listed, firstErr>>

\* scrape: the categories arrived; getAllProductsByCategory takes the first
scrapeListCategories ==
  /\ entry = "scrape"
  /\ pc = "listCategories"
  /\ \E n \in 0..catalog.categories :
       /\ categories' = [c \in 1..n |-> Category(c)]
       /\ products' = <<>>
       /\ IF n = 0
          THEN /\ MapDetails(<<>>)
               /\ UNCHANGED iter
          ELSE /\ pc' = "listing"
               /\ iter' = 1
               /\ mapper' = "getProductsByCategory"
               /\ items' = categories'
               /\ AwaitOne([i \in 1..n |-> NotStarted], 1, "getProductsByCategory")
               /\ UNCHANGED fetched
  /\ UNCHANGED <<entry, catalog, outcome, productsDetails>>
  /\ UNCHANGED <<concurrency, chunkNo, result, cmState, cmErr, clockVars, listed, firstErr>>

\* getAllProductsByCategory: a category is done, the next one is taken
getAllProductsByCategoryNext ==
  /\ entry = "scrape"
  /\ pc = "listing"
  /\ inv[iter].st = "fulfilled"
  /\ iter < Len(categories)
  /\ products' = products \o inv[iter].val
  /\ iter' = iter + 1
  /\ AwaitOne(inv, iter + 1, mapper)
  /\ UNCHANGED <<entry, catalog, pc, outcome, categories, productsDetails>>
  /\ UNCHANGED <<cmVars, clockVars, histVars>>

\* the last category is done: scrape calls api.getProduct for every product
scrapeDetails ==
  /\ entry = "scrape"
  /\ pc = "listing"
  /\ inv[iter].st = "fulfilled"
  /\ iter >= Len(categories)
  /\ products' = products \o inv[iter].val
  /\ MapDetails(products')
  /\ UNCHANGED <<entry, catalog, outcome, categories, productsDetails, iter>>
  /\ UNCHANGED <<concurrency, chunkNo, result, cmState, cmErr, clockVars, listed, firstErr>>

\* getProductsByCategory threw: getAllProductsByCategory and scrape throw
scrapeListingThrow ==
  /\ entry = "scrape"
  /\ pc = "listing"
  /\ inv[iter].st = "rejected"
  /\ outcome' = Rejected(inv[iter].err)
  /\ pc' = "done"
  /\ UNCHANGED <<entry, catalog, categories, products, productsDetails, iter>>
  /\ UNCHANGED <<cmVars, joinVars, clockVars, histVars>>

\* the Promise.all scrape returned fulfils
scrapeReturn ==
  /\ entry = "scrape"
  /\ pc = "details"
  /\ allErr = 0
  /\ AllFulfilled(awaiting)
  /\ outcome' = Fulfilled(AllValues(awaiting))
  /\ pc' = "done"
  /\ UNCHANGED <<entry, catalog, categories, products, productsDetails, iter>>
  /\ UNCHANGED <<cmVars, joinVars, clockVars, histVars>>

\* the Promise.all scrape returned rejects
scrapeReject ==
  /\ entry = "scrape"
  /\ pc = "details"
  /\ allErr # 0
  /\ outcome' = Rejected(allErr)
  /\ pc' = "done"
  /\ UNCHANGED <<entry, catalog, categories, products, productsDetails, iter>>
  /\ UNCHANGED <<cmVars, joinVars, clockVars, histVars>>

\* the two caps swapped: the pagination fanned out with the cap of the details
scrapeChallengeV2ListCategoriesSwapped ==
  /\ entry = "scrapeChallengeV2"
  /\ pc = "listCategories"
  /\ \E n \in 0..catalog.categories :
       /\ categories' = [c \in 1..n |-> Category(c)]
       /\ concurrentMap(getProductMaxConcurrentCalls, "getProductsByCategory",
                        categories')
  /\ pc' = "listing"
  /\ UNCHANGED <<entry, catalog, outcome, products, productsDetails, iter, clockVars, listed, firstErr>>

\* scrapeChallengeV2: the categories arrived, their pagination is fanned out
scrapeChallengeV2ListCategories ==
  /\ entry = "scrapeChallengeV2"
  /\ pc = "listCategories"
  /\ \E n \in 0..catalog.categories :
       /\ categories' = [c \in 1..n |-> Category(c)]
       /\ concurrentMap(listProductsMaxConcurrentCallsV2, "getProductsByCategory",
                        categories')
  /\ pc' = "listing"
  /\ UNCHANGED <<entry, catalog, outcome, products, productsDetails, iter, clockVars, listed, firstErr>>

\* the details fanned out as soon as a chunk of categories is listed, with
\* the products collected so far
scrapeChallengeV2DetailsPipelined ==
  /\ entry = "scrapeChallengeV2"
  /\ pc = "listing"
  /\ cmState = "await"
  /\ allErr = 0
  /\ AllFulfilled(awaiting)
  /\ products' = Flat(Concat(result, AllValues(awaiting)))
  /\ concurrentMap(getProductMaxConcurrentCalls, "getProductDetails", products')
  /\ pc' = "details"
  /\ UNCHANGED <<entry, catalog, outcome, categories, productsDetails, iter, clockVars, listed, firstErr>>

\* scrapeChallengeV2: productsResponse.flat() and the fan-out of the details
scrapeChallengeV2Details ==
  /\ entry = "scrapeChallengeV2"
  /\ pc = "listing"
  /\ cmState = "fulfilled"
  /\ products' = Flat(result)
  /\ concurrentMap(getProductMaxConcurrentCalls, "getProductDetails", products')
  /\ pc' = "details"
  /\ UNCHANGED <<entry, catalog, outcome, categories, productsDetails, iter, clockVars, listed, firstErr>>

\* scrapeChallengeV2: return productDetails
scrapeChallengeV2Return ==
  /\ entry = "scrapeChallengeV2"
  /\ pc = "details"
  /\ cmState = "fulfilled"
  /\ outcome' = Fulfilled(result)
  /\ pc' = "done"
  /\ UNCHANGED <<entry, catalog, categories, products, productsDetails, iter>>
  /\ UNCHANGED <<cmVars, joinVars, clockVars, histVars>>

\* an awaited concurrentMap rejected: the scraper throws
scrapeChallengeThrow ==
  /\ entry \in {"scrapeChallengeV2", "scrapeChallengeV3"}
  /\ pc \in {"listing", "details"}
  /\ cmState = "rejected"
  /\ outcome' = Rejected(cmErr)
  /\ pc' = "done"
  /\ UNCHANGED <<entry, catalog, categories, products, productsDetails, iter>>
  /\ UNCHANGED <<cmVars, joinVars, clockVars, histVars>>

\* scrapeChallengeV3: the categories arrived, their pagination is fanned out
scrapeChallengeV3ListCategories ==
  /\ entry = "scrapeChallengeV3"
  /\ pc = "listCategories"
  /\ \E n \in 0..catalog.categories :
       /\ categories' = [c \in 1..n |-> Category(c)]
       /\ concurrentMap(listProductsMaxConcurrentCallsV3, "getProductsByCategory",
                        categories')
  /\ pc' = "listing"
  /\ UNCHANGED <<entry, catalog, outcome, products, productsDetails, iter, clockVars, listed, firstErr>>

\* products.map(delayedGetProductDetails) in place of the for loop with its
\* await: every product is taken at once
scrapeChallengeV3DetailsAtOnce ==
  /\ entry = "scrapeChallengeV3"
  /\ pc = "listing"
  /\ cmState = "fulfilled"
  /\ products' = Flat(result)
  /\ productsDetails' = <<>>
  /\ IF products' = <<>>
     THEN /\ outcome' = Fulfilled(<<>>)
          /\ pc' = "done"
          /\ UNCHANGED <<iter, mapper, items, joinVars>>
     ELSE /\ pc' = "details"
          /\ iter' = 1
          /\ mapper' = "delayedGetProductDetails"
          /\ items' = products'
          /\ inv' = [i \in 1..Len(products') |-> Invoke("delayedGetProductDetails")]
          /\ awaiting' = <<1>>
          /\ allErr' = 0
          /\ UNCHANGED outcome
  /\ UNCHANGED <<entry, catalog, categories>>
  /\ UNCHANGED <<concurrency, chunkNo, result, cmState, cmErr, clockVars, histVars>>

\* scrapeChallengeV3: productsResponse.flat(); the for loop takes the first
\* product, or returns at once when there is none
scrapeChallengeV3Details ==
  /\ entry = "scrapeChallengeV3"
  /\ pc = "listing"
  /\ cmState = "fulfilled"
  /\ products' = Flat(result)
  /\ productsDetails' = <<>>
  /\ IF products' = <<>>
     THEN /\ outcome' = Fulfilled(<<>>)
          /\ pc' = "done"
          /\ UNCHANGED <<iter, mapper, items, joinVars>>
     ELSE /\ pc' = "details"
          /\ iter' = 1
          /\ mapper' = "delayedGetProductDetails"
          /\ items' = products'
          /\ AwaitOne([i \in 1..Len(products') |-> NotStarted], 1,
                      "delayedGetProductDetails")
          /\ UNCHANGED outcome
  /\ UNCHANGED <<entry, catalog, categories>>
  /\ UNCHANGED <<concurrency, chunkNo, result, cmState, cmErr, clockVars, histVars>>

\* scrapeChallengeV3: a detail arrived, the next product is taken
scrapeChallengeV3Next ==
  /\ entry = "scrapeChallengeV3"
  /\ pc = "details"
  /\ inv[iter].st = "fulfilled"
  /\ iter < Len(products)
  /\ productsDetails' = Append(productsDetails, inv[iter].val)
  /\ iter' = iter + 1
  /\ AwaitOne(inv, iter + 1, mapper)
  /\ UNCHANGED <<entry, catalog, pc, outcome, categories, products>>
  /\ UNCHANGED <<cmVars, clockVars, histVars>>

\* scrapeChallengeV3: the last detail arrived: return productsDetails
scrapeChallengeV3Return ==
  /\ entry = "scrapeChallengeV3"
  /\ pc = "details"
  /\ inv[iter].st = "fulfilled"
  /\ iter >= Len(products)
  /\ productsDetails' = Append(productsDetails, inv[iter].val)
  /\ outcome' = Fulfilled(productsDetails')
  /\ pc' = "done"
  /\ UNCHANGED <<entry, catalog, categories, products, iter>>
  /\ UNCHANGED <<cmVars, joinVars, clockVars, histVars>>

\* scrapeChallengeV3: the awaited delayedGetProductDetails rejected
scrapeChallengeV3Throw ==
  /\ entry = "scrapeChallengeV3"
  /\ pc = "details"
  /\ inv[iter].st = "rejected"
  /\ outcome' = Rejected(inv[iter].err)
  /\ pc' = "done"
  /\ UNCHANGED <<entry, catalog, categories, products, productsDetails, iter>>
  /\ UNCHANGED <<cmVars, joinVars, clockVars, histVars>>

InitScrape ==
  /\ entry \in Scrapers
  /\ catalog \in Catalogs
  /\ concurrency = 0
  /\ mapper = "none"
  /\ items = <<>>
  /\ InitCommon

NextScrape ==
  \/ CallScraper
  \/ ListCategoriesReject
  \/ scrapeListCategories
  \/ getAllProductsByCategoryNext
  \/ scrapeDetails
  \/ scrapeListingThrow
  \/ scrapeReturn
  \/ scrapeReject
  \/ scrapeChallengeV2ListCategories
  \/ scrapeChallengeV2Details
  \/ scrapeChallengeV2Return
  \/ scrapeChallengeThrow
  \/ scrapeChallengeV3ListCategories
  \/ scrapeChallengeV3Details
  \/ scrapeChallengeV3Next
  \/ scrapeChallengeV3Return
  \/ scrapeChallengeV3Throw
  \/ concurrentMapNextChunk
  \/ concurrentMapReturn
  \/ concurrentMapThrow
  \/ \E i \in DOMAIN inv : ListProductsPage(i)
  \/ \E i \in DOMAIN inv : ListProductsReject(i)
  \/ \E i \in DOMAIN inv : GetProductResolve(i)
  \/ \E i \in DOMAIN inv : GetProductReject(i)
  \/ \E i \in DOMAIN inv : DelayElapsed(i)
  \/ Tick

SpecScrape == InitScrape /\ [][NextScrape]_vars

\* Every call of the remote api is answered in the end, with a page, a
\* product or an error (pagination ends after MaxPages pages at most).
ApiSettles ==
  \/ ListCategoriesReject
  \/ scrapeListCategories
  \/ scrapeChallengeV2ListCategories
  \/ scrapeChallengeV3ListCategories
  \/ \E i \in DOMAIN inv : ListProductsPage(i)
  \/ \E i \in DOMAIN inv : ListProductsReject(i)
  \/ \E i \in DOMAIN inv : GetProductResolve(i)
  \/ \E i \in DOMAIN inv : GetProductReject(i)

\* time passes and the timers of delayedReturn fire
TimersFire ==
  \/ Tick
  \/ \E i \in DOMAIN inv : DelayElapsed(i)

\* the event loop runs the call and every continuation that is ready
EventLoopRuns ==
  \/ CallScraper
  \/ getAllProductsByCategoryNext
  \/ scrapeDetails
  \/ scrapeListingThrow
  \/ scrapeReturn
  \/ scrapeReject
  \/ scrapeChallengeV2Details
  \/ scrapeChallengeV2Return
  \/ scrapeChallengeThrow
  \/ scrapeChallengeV3Details
  \/ scrapeChallengeV3Next
  \/ scrapeChallengeV3Return
  \/ scrapeChallengeV3Throw
  \/ concurrentMapNextChunk
  \/ concurrentMapReturn
  \/ concurrentMapThrow

\* the catalogs of the runs checked for liveness: those of Catalogs with few
\* listings, the wide one cut to the categories that make a second chunk of
\* scrapeChallengeV2
FairCatalogs ==
  {[c EXCEPT !.categories = Min(c.categories, listProductsMaxConcurrentCallsV2 + 1)] :
     c \in {k \in Catalogs : k.listings = FewProducts}}

InitScrapeFair ==
  /\ entry \in Scrapers
  /\ catalog \in FairCatalogs
  /\ concurrency = 0
  /\ mapper = "none"
  /\ items = <<>>
  /\ InitCommon

\* a run of a scraper in which the api answers, the timers fire and the
\* event loop runs
SpecScrapeFair ==
  /\ InitScrapeFair
  /\ [][NextScrape]_vars
  /\ WF_vars(ApiSettles)
  /\ WF_vars(TimersFire)
  /\ WF_vars(EventLoopRuns)

\* ====================================================================
\* Properties of a direct concurrentMap call (SpecCM)
\* ====================================================================
InFlightSet == {i \in DOMAIN inv : InFlight(inv[i])}

StartedSet == {i \in DOMAIN inv : Started(inv[i])}

\* the chunk of item i: the k-th consecutive group of `concurrency` items
ChunkIndex(i) == ((i - 1) \div concurrency) + 1

\* C1: at no reachable state of a concurrentMap call are more than
\* `concurrency` mapper invocations started and not yet settled, whatever
\* the items, the order of completions and the failures.
C1_AtMostConcurrencyInFlight ==
  entry = "concurrentMap" => Cardinality(InFlightSet) <= concurrency

\* a full window: `concurrency` (at least 2) invocations in flight while
\* an item of a later chunk waits
C1_Witness ==
  /\ entry = "concurrentMap"
  /\ concurrency >= 2
  /\ Cardinality(InFlightSet) = concurrency
  /\ \E i \in DOMAIN inv : ~Started(inv[i])

\* C2: when every mapper invocation succeeds, concurrentMap resolves to a
\* list as long as items whose i-th element is what mapper(items[i])
\* resolved to (items itself for the identity mapper), for every
\* concurrency and every order of completion.
C2_ResultMirrorsInput ==
  (entry = "concurrentMap" /\ cmState = "fulfilled") =>
     /\ Len(result) = Len(items)
     /\ \A i \in DOMAIN items : result[i] = MapperValue(mapper, items[i])
     /\ mapper = "identityAsync" => result = items

\* a fulfilled call with concurrency 1 over three chunks of unequal items
C2_Witness ==
  /\ entry = "concurrentMap"
  /\ cmState = "fulfilled"
  /\ mapper = "identityAsync"
  /\ concurrency = 1
  /\ Len(items) = 3
  /\ items[1] # items[3]

\* a fulfilled call with concurrency len(items) + 10: one chunk of three
C2_WitnessOneChunk ==
  /\ entry = "concurrentMap"
  /\ cmState = "fulfilled"
  /\ concurrency = Len(items) + 10
  /\ Len(items) = 3
  /\ chunkNo = 1

\* a fulfilled call of an empty list with concurrency len(items) + 10
C2_WitnessEmpty ==
  /\ entry = "concurrentMap"
  /\ cmState = "fulfilled"
  /\ items = <<>>
  /\ concurrency = 10

\* C3: if a mapper invocation fails, concurrentMap does not fulfil; when it
\* rejects it rejects with the error of a failed invocation of the chunk it
\* was at, and no invocation of a later chunk was ever started (at most the
\* items up to the end of the failing chunk were mapped).
C3_FailsWithErrorNoLaterChunk ==
  entry = "concurrentMap" =>
    /\ (\E i \in DOMAIN inv : inv[i].st = "rejected") => cmState # "fulfilled"
    /\ cmState = "rejected" =>
         /\ \E i \in DOMAIN inv :
              /\ ChunkIndex(i) = chunkNo
              /\ inv[i].st = "rejected"
              /\ inv[i].err = cmErr
         /\ (Cardinality({i \in DOMAIN inv : inv[i].st = "rejected"}) = 1 =>
               \A i \in DOMAIN inv : inv[i].st = "rejected" => cmErr = MapperError(i))
         /\ \A j \in DOMAIN inv : ChunkIndex(j) > chunkNo => ~Started(inv[j])
         /\ Cardinality(StartedSet) <= Min(chunkNo * concurrency, Len(items))

\* a rejected call whose failing chunk is followed by a chunk never started
C3_Witness ==
  /\ entry = "concurrentMap"
  /\ cmState = "rejected"
  /\ chunkNo >= 2
  /\ \E j \in DOMAIN inv : ChunkIndex(j) > chunkNo /\ ~Started(inv[j])

\* C4 as stated: at the moment concurrentMap rejects, no mapper invocation
\* of the failing chunk is still in flight.
C4_RejectsOnlyAfterChunkSettled ==
  (entry = "concurrentMap" /\ cmState = "rejected") =>
     \A e \in DOMAIN awaiting : ~InFlight(inv[awaiting[e]])

\* C4 amended: once an invocation of the chunk has failed the call can
\* reject at once, whether or not the other invocations of that chunk have
\* settled; when it rejects, every invocation of every earlier chunk has
\* fulfilled and every invocation of the failing chunk has been started.
C4_RejectsAtFirstFailure ==
  entry = "concurrentMap" =>
    /\ (cmState = "await" /\ \E e \in DOMAIN awaiting : inv[awaiting[e]].st = "rejected")
          => ENABLED concurrentMapThrow
    /\ cmState = "rejected" =>
         /\ \A i \in DOMAIN inv : ChunkIndex(i) < chunkNo => inv[i].st = "fulfilled"
         /\ \A i \in DOMAIN inv : ChunkIndex(i) = chunkNo => Started(inv[i])

\* the call has rejected while an invocation of the failing chunk is in flight
C4_Witness ==
  /\ entry = "concurrentMap"
  /\ cmState = "rejected"
  /\ \E e \in DOMAIN awaiting : InFlight(inv[awaiting[e]])

\* C5: chunk barrier: no mapper invocation for an item of a chunk is
\* started before every invocation of the chunks before it has completed,
\* chunk k being the k-th consecutive group of `concurrency` items.
C5_ChunkBarrier ==
  entry = "concurrentMap" =>
    \A i, j \in DOMAIN inv :
       (ChunkIndex(i) < ChunkIndex(j) /\ Started(inv[j])) => inv[i].st = "fulfilled"

\* the second chunk is in flight after a first chunk of two or more items
C5_Witness ==
  /\ entry = "concurrentMap"
  /\ concurrency >= 2
  /\ chunkNo = 2
  /\ \E j \in DOMAIN inv : ChunkIndex(j) = 2 /\ InFlight(inv[j])

\* ====================================================================
\* Properties of the scrapers (SpecScrape)
\* ====================================================================
\* the api.listProducts calls in flight: one per running pagination loop
ListProductsInFlight ==
  IF mapper = "getProductsByCategory" THEN InFlightSet ELSE {}

\* the api.getProduct calls in flight
GetProductInFlight == IF mapper \in DetailMappers THEN InFlightSet ELSE {}

\* the api.getProduct calls made so far
GetProductCalled ==
  IF mapper \in DetailMappers
  THEN {i \in DOMAIN inv : inv[i].st \in {"pending", "fulfilled", "rejected"}}
  ELSE {}

\* how many elements of xs have the id p
CountId(xs, p) == Cardinality({i \in DOMAIN xs : xs[i].id = p})

\* C6: during a run of scrapeChallengeV2 never more than 2 pagination loops
\* (api.listProducts calls) and never more than 5 api.getProduct calls are
\* in flight, whatever the catalog, the order of completions and the failures.
C6_V2Caps ==
  entry = "scrapeChallengeV2" =>
    /\ Cardinality(ListProductsInFlight) <= 2
    /\ Cardinality(GetProductInFlight) <= 5

\* 5 api.getProduct calls in flight while a sixth product waits
C6_Witness ==
  /\ entry = "scrapeChallengeV2"
  /\ Cardinality(GetProductInFlight) = 5
  /\ \E i \in DOMAIN inv : ~Started(inv[i])

\* 2 pagination loops in flight while a third category waits
C6_WitnessListing ==
  /\ entry = "scrapeChallengeV2"
  /\ Cardinality(ListProductsInFlight) = 2
  /\ \E i \in DOMAIN inv : ~Started(inv[i])

\* C7: during a run of scrapeChallengeV3 at most 3 api.listProducts calls
\* are in flight, at most one api.getProduct call is in flight, and the call
\* for product k+1 is not started before the call for product k has settled.
C7_V3CapAndSerialDetails ==
  entry = "scrapeChallengeV3" =>
    /\ Cardinality(ListProductsInFlight) <= 3
    /\ Cardinality(GetProductInFlight) <= 1
    /\ \A k \in GetProductCalled : \A j \in 1..(k - 1) : Settled(inv[j])

\* the api.getProduct call of a second product is in flight
C7_Witness ==
  /\ entry = "scrapeChallengeV3"
  /\ \E k \in GetProductInFlight : k >= 2

\* 3 pagination loops in flight while a fourth category waits
C7_WitnessListing ==
  /\ entry = "scrapeChallengeV3"
  /\ Cardinality(ListProductsInFlight) = 3
  /\ \E i \in DOMAIN inv : ~Started(inv[i])

\* C8: in scrapeChallengeV3 the start times of two consecutive
\* api.getProduct calls differ by at least 100 ms, whatever the number of
\* products and the latency of api.getProduct (zero included).
C8_V3Spacing ==
  entry = "scrapeChallengeV3" => (minGap < 0 \/ minGap >= 100)

\* two calls were started exactly 100 ms apart (the first answered at once)
\* and a third is being delayed
C8_Witness ==
  /\ entry = "scrapeChallengeV3"
  /\ minGap = 100
  /\ \E k \in DOMAIN inv : k >= 3 /\ inv[k].st = "delaying"

\* a call answered late: the next one started more than 100 ms after it
C8_WitnessLatency ==
  /\ entry = "scrapeChallengeV3"
  /\ minGap > 100

\* C9: when a scraper resolves, the number of api.getProduct calls made is
\* the number of product summaries listed by all pages of all categories,
\* that many summaries were collected, and the returned list has that length.
C9_OneFetchPerSummary ==
  (entry \in Scrapers /\ outcome.st = "fulfilled") =>
     /\ BagSize(fetched) = BagSize(listed)
     /\ Len(products) = BagSize(listed)
     /\ Len(outcome.val) = BagSize(listed)

\* scrapeChallengeV2 resolved with the details of six products
C9_Witness ==
  /\ entry = "scrapeChallengeV2"
  /\ outcome.st = "fulfilled"
  /\ Len(outcome.val) = 6

\* scrape resolved after a category of two pages
C9_WitnessScrape ==
  /\ entry = "scrape"
  /\ outcome.st = "fulfilled"
  /\ Len(outcome.val) >= 2
  /\ Len(categories) = 1

\* scrapeChallengeV3 resolved with two details
C9_WitnessV3 ==
  /\ entry = "scrapeChallengeV3"
  /\ outcome.st = "fulfilled"
  /\ Len(outcome.val) >= 2

\* C10 as stated: the returned list holds exactly one ProductDetail per
\* distinct product listed, also when an id is listed more than once.
C10_OnePerDistinctProduct ==
  (entry \in Scrapers /\ outcome.st = "fulfilled") =>
     \A p \in ProductIds :
        CountId(outcome.val, p) = IF listed[p] > 0 THEN 1 ELSE 0

\* C10 amended: the returned list holds one ProductDetail per product summary
\* listed: an id listed k times by the pages has k details in the list (so
\* exactly one when no id is listed twice), each the detail api.getProduct
\* gives for that id.
C10_OnePerListedSummary ==
  (entry \in Scrapers /\ outcome.st = "fulfilled") =>
     /\ \A p \in ProductIds : CountId(outcome.val, p) = listed[p]
     /\ \A i \in DOMAIN outcome.val : outcome.val[i] = getProduct(outcome.val[i].id)

\* scrapeChallengeV2 resolved after the same id was listed twice, by two
\* categories
C10_Witness ==
  /\ entry = "scrapeChallengeV2"
  /\ outcome.st = "fulfilled"
  /\ catalog.ids = ProductIds
  /\ Len(categories) = 2
  /\ \E p \in ProductIds : listed[p] = 2 /\ CountId(outcome.val, p) = 2

\* a scraper resolved after two different ids were listed once each
C10_WitnessDistinct ==
  /\ entry \in Scrapers
  /\ outcome.st = "fulfilled"
  /\ \A p \in ProductIds : listed[p] = 1

\* ---------------------------------------------------------------- C11
\* C11: in each scraper, once any api call has failed the scraper never
\* resolves (no partial list), a rejected scraper carries the error of the
\* first call that failed and no value, a failed pagination loop means no
\* api.getProduct call was started, and a failed call stays failed: it is
\* never issued again.
C11_FailsWithFirstErrorNoRetry ==
  /\ [](entry \in Scrapers =>
          /\ firstErr # 0 => outcome.st # "fulfilled"
          /\ outcome.st = "rejected" =>
                firstErr # 0 /\ outcome.err = firstErr /\ outcome.val = <<>>
          /\ (mapper = "getProductsByCategory"
                /\ \E i \in DOMAIN inv : inv[i].st = "rejected")
               => BagSize(fetched) = 0)
  /\ [][\A i \in DOMAIN inv :
          inv[i].st = "rejected" => i \in DOMAIN inv' /\ inv'[i] = inv[i]]_vars

\* scrapeChallengeV2 rejected with the error of the pagination loop that
\* failed first, the other loop of the chunk failed later, no
\* api.getProduct call was made
C11_Witness ==
  /\ entry = "scrapeChallengeV2"
  /\ outcome.st = "rejected"
  /\ mapper = "getProductsByCategory"
  /\ Len(inv) >= 2
  /\ inv[1].st = "rejected" /\ inv[2].st = "rejected"
  /\ outcome.err = ListProductsError(2)
  /\ BagSize(listed) > 0
  /\ BagSize(fetched) = 0

\* a scraper rejected with the error of an api.getProduct call while other
\* details had already arrived
C11_WitnessDetails ==
  /\ entry \in Scrapers
  /\ outcome.st = "rejected"
  /\ mapper \in DetailMappers
  /\ \E i, j \in DOMAIN inv :
       inv[i].st = "fulfilled" /\ inv[j].st = "rejected" /\ outcome.err = GetProductError(j)

\* ---------------------------------------------------------------- C12
\* C12: in scrape at most one api.listProducts call is in flight at any
\* instant, the pagination of category k + 1 is started only after the
\* pagination of category k has returned its last page, and once the
\* listing is over an api.getProduct call has been issued for every product
\* at once, whatever their number.
C12_ScrapeSequentialThenUncapped ==
  entry = "scrape" =>
    /\ Cardinality(ListProductsInFlight) <= 1
    /\ mapper = "getProductsByCategory" =>
          \A k \in DOMAIN inv :
            k > 1 /\ Started(inv[k]) =>
              inv[k - 1].st = "fulfilled" /\ inv[k - 1].cursor = Null
    /\ mapper = "getProduct" =>
          /\ Len(inv) = Len(products)
          /\ GetProductCalled = DOMAIN inv

\* scrape with more api.getProduct calls in flight than the cap of the
\* bounded variants: one for each of the MaxProducts products listed
C12_Witness ==
  /\ entry = "scrape"
  /\ Len(products) = MaxProducts
  /\ Len(products) > getProductMaxConcurrentCalls
  /\ Cardinality(GetProductInFlight) = Len(products)

\* scrape paginating its second category, the first one done
C12_WitnessListing ==
  /\ entry = "scrape"
  /\ mapper = "getProductsByCategory"
  /\ Len(inv) >= 3
  /\ inv[1].st = "fulfilled" /\ InFlight(inv[2]) /\ ~Started(inv[3])

\* ---------------------------------------------------------------- C13
\* a step of concurrentMapChallenge seen as a step of concurrentMap: building
\* the chain starts nothing, the first then-callback does what the call of
\* concurrentMap does up to its first await, and every later step is a step
\* concurrentMap takes from the same state
ChallengeStepIsConcurrentMapStep ==
  IF pc = "start"
  THEN /\ StartedSet' = {}
       /\ items = <<>> => concurrentMap(concurrency, mapper, items)
  ELSE IF chunkNo = 0
  THEN concurrentMap(concurrency, mapper, items) /\ UNCHANGED <<mainVars, clockVars, listed, firstErr>>
  ELSE \/ concurrentMapNextChunk
       \/ concurrentMapReturn
       \/ concurrentMapThrow
       \/ \E i \in DOMAIN inv : MapperResolve(i)
       \/ \E i \in DOMAIN inv : MapperReject(i)

\* concurrentMapChallenge can take every step concurrentMap can take
ChallengeCanFollowConcurrentMap ==
  chunkNo >= 1 =>
    /\ (ENABLED concurrentMapNextChunk) => (ENABLED concurrentMapChallengeThen)
    /\ (ENABLED concurrentMapReturn) => (ENABLED concurrentMapChallengeReturn)
    /\ (ENABLED concurrentMapThrow) => (ENABLED concurrentMapChallengeReject)

\* what C1, C2, C3 and C5 state of concurrentMap
ConcurrentMapContract ==
  /\ Cardinality(InFlightSet) <= concurrency
  /\ \A i \in StartedSet : \A j \in DOMAIN inv :
       (ChunkIndex(j) < ChunkIndex(i) => inv[j].st = "fulfilled")
  /\ cmState = "fulfilled" =>
       result = [i \in DOMAIN items |-> MapperValue(mapper, items[i])]
  /\ cmState = "rejected" =>
       /\ cmErr = firstErr /\ firstErr # 0
       /\ \A j \in DOMAIN inv : (Started(inv[j]) <=> ChunkIndex(j) <= chunkNo)

\* C13: concurrentMapChallenge behaves like concurrentMap for every
\* concurrency >= 1, items and pattern of completions: each of its steps is
\* a step of concurrentMap and it can take every step concurrentMap can, so
\* both start the same invocations and settle alike; it resolves with the
\* mapped items in input order or rejects with the first error, never has
\* more than `concurrency` invocations in flight, and starts a chunk only
\* after all earlier chunks fulfilled.
C13_ChallengeWorksLikeConcurrentMap ==
  /\ [][ChallengeStepIsConcurrentMapStep]_vars
  /\ []ChallengeCanFollowConcurrentMap
  /\ []ConcurrentMapContract

\* concurrentMapChallenge resolved with three mapped items, after two chunks
C13_Witness ==
  /\ entry = "concurrentMapChallenge"
  /\ Len(items) = 3 /\ concurrency = 2
  /\ chunkNo = 2
  /\ cmState = "fulfilled"
  /\ result = [i \in DOMAIN items |-> MapperValue(mapper, items[i])]

\* concurrentMapChallenge rejected in its first chunk, the second chunk was
\* never mapped and an invocation of the first is still in flight
C13_WitnessRejected ==
  /\ entry = "concurrentMapChallenge"
  /\ Len(items) = 3 /\ concurrency = 2
  /\ cmState = "rejected"
  /\ cmErr = MapperError(2)
  /\ InFlight(inv[1])
  /\ ~Started(inv[3])

C14_WitnessChallenge ==
  /\ entry = "concurrentMapChallenge"
  /\ concurrency < 0
  /\ Len(items) = 3
  /\ cmState = "thrown"
  /\ StartedSet = {}

\* ---------------------------------------------------------------- C15
\* C15: in every pagination loop the first api.listProducts call passes the
\* cursor 0 and every later call the nextCursor of the page before it; a
\* call is made only once the page before it has arrived (calls are one
\* ahead of pages while the loop runs); the loop has returned exactly when
\* the latest page carried a null nextCursor, whatever the page held; and
\* it returns the results of all pages, in the order the pages arrived.
C15_CursorThreaded ==
  mapper = "getProductsByCategory" =>
    \A i \in DOMAIN inv :
      Started(inv[i]) =>
        /\ inv[i].calls >= 1
        /\ inv[i].called # Null
        /\ inv[i].calls = 1 => inv[i].called = 0
        /\ (inv[i].calls > 1 /\ inv[i].st # "fulfilled") =>
              inv[i].called = inv[i].answered
        /\ inv[i].calls = inv[i].pages + (IF inv[i].st = "fulfilled" THEN 0 ELSE 1)
        /\ inv[i].st = "fulfilled" <=> (inv[i].pages >= 1 /\ inv[i].answered = Null)
        /\ inv[i].st = "fulfilled" => inv[i].val = inv[i].got

\* a loop that got an empty first page with nextCursor 2 has made its second
\* call, with cursor 2
C15_Witness ==
  /\ mapper = "getProductsByCategory"
  /\ \E i \in DOMAIN inv :
       /\ InFlight(inv[i])
       /\ inv[i].pages = 1 /\ inv[i].got = <<>> /\ inv[i].answered = 2
       /\ inv[i].calls = 2 /\ inv[i].called = 2

\* a loop returned the product of its single non-empty page after two pages
C15_WitnessReturned ==
  /\ mapper = "getProductsByCategory"
  /\ \E i \in DOMAIN inv :
       /\ inv[i].st = "fulfilled"
       /\ inv[i].pages = 2 /\ inv[i].called = 2
       /\ inv[i].val = <<Product(1)>>

\* ---------------------------------------------------------------- C16
\* C16: in a concurrentMap call no item is ever mapped twice; when the call
\* resolves, which it does when no invocation fails, the mapper has been
\* invoked exactly once on each item; and a call with no items resolves at
\* once with the empty list, the mapper never invoked.
C16_MapperInvokedOncePerItem ==
  (entry = "concurrentMap" /\ pc # "start") =>
    /\ \A i \in DOMAIN inv : inv[i].invoked <= 1
    /\ cmState = "fulfilled" =>
          /\ DOMAIN inv = DOMAIN items
          /\ \A i \in DOMAIN inv : inv[i].invoked = 1
    /\ (firstErr = 0 /\ ~ENABLED NextCM) => cmState = "fulfilled"
    /\ items = <<>> =>
          cmState = "fulfilled" /\ result = <<>> /\ inv = <<>>

\* a call on three items, two at a time, resolved: each item mapped once
C16_Witness ==
  /\ entry = "concurrentMap"
  /\ Len(items) = 3 /\ concurrency = 2
  /\ cmState = "fulfilled"
  /\ firstErr = 0
  /\ \A i \in 1..3 : inv[i].invoked = 1

\* a call on no items resolved with the empty list
C16_WitnessEmpty ==
  /\ entry = "concurrentMap"
  /\ items = <<>>
  /\ cmState = "fulfilled"
  /\ result = <<>>
  /\ inv = <<>>

\* ---------------------------------------------------------------- C17
\* while invocation i is in flight the call has not resolved and no
\* invocation of a later chunk has been started
StalledBehind(i) ==
  /\ cmState # "fulfilled"
  /\ \A j \in DOMAIN inv : ChunkIndex(j) > ChunkIndex(i) => ~Started(inv[j])

\* C17: concurrentMap has no cancellation and no timeout: an invocation in
\* flight stays in flight until its own promise settles, and for as long as
\* it is in flight the call does not resolve and no invocation of a later
\* chunk is started; so an invocation that never settles stalls its chunk
\* for ever.
C17_HungInvocationStallsChunk ==
  /\ [](\A i \in InFlightSet : StalledBehind(i))
  /\ [][\A i \in InFlightSet :
          \/ /\ i \in DOMAIN inv'
             /\ inv'[i] = inv[i]
             /\ cmState' # "fulfilled"
             /\ \A j \in DOMAIN inv' :
                  ChunkIndex(j) > ChunkIndex(i) => ~Started(inv'[j])
          \/ MapperResolve(i)
          \/ MapperReject(i)]_vars

\* the first chunk is stalled behind one invocation still in flight: its
\* sibling fulfilled, the second chunk not started, the call not settled
C17_Witness ==
  /\ entry = "concurrentMap"
  /\ Len(items) = 3 /\ concurrency = 2
  /\ Len(inv) = 3
  /\ inv[1].st = "fulfilled" /\ InFlight(inv[2])
  /\ ~Started(inv[3])
  /\ cmState = "await"
  /\ ~ENABLED concurrentMapNextChunk
  /\ ~ENABLED concurrentMapReturn

\* ---------------------------------------------------------------- C18
\* every category has been paginated up to a page with a null nextCursor
AllCategoriesListed ==
  /\ Len(inv) = Len(categories)
  /\ \A i \in DOMAIN inv :
       inv[i].st = "fulfilled" /\ inv[i].pages >= 1 /\ inv[i].answered = Null

\* a step into the detail stage starts where all categories are listed
EntersDetailStageAfterListing ==
  (mapper \notin DetailMappers /\ mapper' \in DetailMappers) =>
    IF mapper = "getProductsByCategory" THEN AllCategoriesListed
    ELSE categories' = <<>>

\* no step leads from the detail stage back to listing
StaysInDetailStage ==
  (mapper \in DetailMappers) => (mapper' = mapper /\ ListProductsInFlight' = {})

\* C18: in each scraper an api.getProduct call is made only in the detail
\* stage, the detail stage is entered only from a state where every
\* category has been paginated up to a null nextCursor (or there is no
\* category), and it is never left for the listing stage again: so no
\* api.getProduct call is started while an api.listProducts call is in
\* flight or still to be issued.
C18_StageBarrier ==
  /\ [](BagSize(fetched) > 0 =>
          mapper \in DetailMappers /\ ListProductsInFlight = {})
  /\ [][EntersDetailStageAfterListing]_vars
  /\ [][StaysInDetailStage]_vars

\* scrapeChallengeV3 has started an api.getProduct call after three
\* categories were paginated and two products listed
C18_Witness ==
  /\ entry = "scrapeChallengeV3"
  /\ Len(categories) >= 3
  /\ mapper \in DetailMappers
  /\ BagSize(fetched) > 0
  /\ BagSize(listed) >= 2

\* scrapeChallengeV2 is about to enter the detail stage: two chunks of
\* categories are listed
C18_WitnessV2 ==
  /\ entry = "scrapeChallengeV2"
  /\ Len(categories) >= 3
  /\ mapper = "getProductsByCategory"
  /\ AllCategoriesListed
  /\ ENABLED scrapeChallengeV2Details

\* ---------------------------------------------------------------- C19
\* the promise of scrapeChallengeV2 or scrapeChallengeV3 has settled
ChallengeSettled ==
  entry \in {"scrapeChallengeV2", "scrapeChallengeV3"} /\ outcome.st # "pending"

\* the step makes invocation i issue a further api.listProducts call
ListProductsCalled(i) == i \in DOMAIN inv' /\ inv'[i].calls > inv[i].calls

\* C19 as stated: once the promise of scrapeChallengeV2 or scrapeChallengeV3
\* has settled, no step starts an api.listProducts or api.getProduct call.
C19_NoCallAfterSettled ==
  [][ChallengeSettled =>
       /\ fetched' = fetched
       /\ \A i \in DOMAIN inv : ~ListProductsCalled(i)]_vars

\* C19 amended: once the promise has settled no mapper invocation is
\* started, so no api.getProduct call and no pagination of a further
\* category; after it resolved no call at all is started; after it rejected
\* the only calls started are further api.listProducts calls of pagination
\* loops of the failed chunk that were in flight.
C19_NoInvocationAfterSettled ==
  [][ChallengeSettled =>
       /\ fetched' = fetched
       /\ DOMAIN inv' = DOMAIN inv
       /\ \A i \in DOMAIN inv :
            /\ inv'[i].invoked = inv[i].invoked
            /\ ListProductsCalled(i) =>
                 /\ outcome.st = "rejected"
                 /\ mapper = "getProductsByCategory"
                 /\ InFlight(inv[i])
                 /\ ChunkIndex(i) = chunkNo]_vars

\* scrapeChallengeV2 has rejected and a pagination loop of the failed chunk
\* is still in flight and can be answered with a further cursor
C19_Witness ==
  /\ entry = "scrapeChallengeV2"
  /\ outcome.st = "rejected"
  /\ mapper = "getProductsByCategory"
  /\ \E i, j \in DOMAIN inv :
       /\ inv[j].st = "rejected"
       /\ ChunkIndex(i) = ChunkIndex(j)
       /\ InFlight(inv[i])
       /\ inv[i].calls < MaxPages
       /\ ENABLED ListProductsPage(i)

\* the loop of the failed chunk has made a call after scrapeChallengeV3
\* rejected with the failure of the very first call of its sibling
C19_WitnessLateCall ==
  /\ entry = "scrapeChallengeV3"
  /\ outcome.st = "rejected"
  /\ mapper = "getProductsByCategory"
  /\ Len(inv) >= 2
  /\ inv[1].st = "rejected" /\ inv[1].pages = 0
  /\ inv[2].calls = 2
  /\ outcome.err = ListProductsError(1)

\* ---------------------------------------------------------------- C20
\* C20: when every api call is answered in the end and every pagination
\* ends after finitely many pages, each scraper settles in the end: its
\* promise resolves with the list of details or rejects with an error.
C20_ScraperSettles ==
  <>(outcome.st \in {"fulfilled", "rejected"})

\* scrapeChallengeV3 resolved with two details after two paced calls
C20_Witness ==
  /\ entry = "scrapeChallengeV3"
  /\ outcome.st = "fulfilled"
  /\ Len(outcome.val) = 2
  /\ BagSize(fetched) = 2
  /\ pc = "done"

\* scrape rejected after api.getProduct calls failed
C20_WitnessRejected ==
  /\ entry = "scrape"
  /\ outcome.st = "rejected"
  /\ BagSize(fetched) >= 2
  /\ pc = "done"

====
